---- MODULE Spec2Model ----
(***************************************************************************)
(* Template resolution of django/template/loader.py: the process-wide      *)
(* loader chain, find_template with its skip filter, get_template,         *)
(* select_template and render_to_string.                                   *)
(*                                                                         *)
(* Python's None is the empty tuple <<>>; an optional value v is <<v>>     *)
(* where the two must be told apart.  A loader is a record                 *)
(* [cls, inst, bound]: cls is its class (which fixes never_skip and        *)
(* is_usable), inst tells instances of one class apart.                    *)
(***************************************************************************)
EXTENDS Integers, Sequences, FiniteSets, TLC

\* ------------------------------------------------------------------ bounds
\* longest explicit loader chain handed to find_template
MaxChain == 3
\* longest candidate list handed to select_template
MaxNames == 3
\* number of entries of settings.TEMPLATE_LOADERS
MaxSpecs == 2
\* threads calling get_template_source_loaders concurrently
NumThreads == 2

\* ---------------------------------------------------------------- universe
None == <<>>

\* template names a caller may ask for
Names == {"a", "b"}

\* the name of a parent template that a found template extends and that no
\* loader has (it only ever appears inside compilation)
ParentName == "base"

\* search-directory overrides (dirs): None or one directory list
DirChoices == {None, <<"d">>}

\* loader classes: a plain loader, an aliasing loader flagged never_skip and a
\* loader whose prerequisites are missing
Classes == {"plain", "alias", "eggs"}

\* bound is TRUE for the bound method load_template_source of the instance,
\* FALSE for the instance itself
Loader(c, i) == [cls |-> c, inst |-> i, bound |-> FALSE]

BoundMethod(l) == [l EXCEPT !.bound = TRUE]

\* the loader instances explicit chains are made of: three instances of the
\* plain class (same configuration, different identity) and a never-skip one
Arena == {Loader("plain", 1), Loader("plain", 2), Loader("plain", 3), Loader("alias", 1)}

\* class attributes of BaseLoader and its subclasses
is_loader_class(l) == l.cls \in Classes

is_usable(l) == l.cls # "eggs"

\* what the storage behind a loader holds for a name: nothing, an unreadable
\* file, a source that compiles, a source extending a missing parent, or a
\* source with a syntax error
StoreVals == {"missing", "ioerror", "good", "orphan", "broken"}

Unset == "unset"

Range(s) == {s[i] : i \in 1..Len(s)}

SeqsUpTo(S, n) == UNION {[1..k -> S] : k \in 0..n}

\* -------------------------------------------------------------- exceptions
TemplateDoesNotExist(msg) == [type |-> "TemplateDoesNotExist", args |-> <<msg>>]

OtherError(type, where) == [type |-> type, args |-> <<where>>]

Raise(e) == [ok |-> FALSE, exc |-> e]

Return(v) == [ok |-> TRUE, value |-> v]

IsNotFound(r) == ~r.ok /\ r.exc.type = "TemplateDoesNotExist"

\* the read loader.never_skip (line 177): the class attribute of BaseLoader
\* (line 58), which the aliasing loader sets; a function-style loader carries
\* is_usable alone (lines 20-22) and the read raises AttributeError
never_skip(l) ==
    IF is_loader_class(l) THEN Return(l.cls = "alias")
    ELSE Raise(OtherError("AttributeError", "never_skip"))

\* loader.never_skip reads as True
IsNeverSkip(l) == never_skip(l).ok /\ never_skip(l).value

\* ------------------------------------------------------- helper operators
\* str(loader): used in display names and loader-internal messages
LoaderStr(l) == l.cls \o "#" \o ToString(l.inst)

\* getattr(x, '__self__', x): the instance behind a bound method, or x itself
Unwrap(x) == [x EXCEPT !.bound = FALSE]

\* a display name of None (line 71) is the empty string: both are falsy
NoDisplay == ""

\* ------------------------------------------------------------------ origin
LoaderOrigin(display_name, loaderRef, nm, dirs_) ==
    [name |-> display_name, loader |-> loaderRef, loadname |-> nm, dirs |-> dirs_]

\* make_origin without the test of line 107: an origin whatever the display
\* name
make_origin_always(display_name, loaderRef, nm, dirs_) ==
    <<LoaderOrigin(display_name, loaderRef, nm, dirs_)>>

\* make_origin (lines 106-110)
make_origin(display_name, loaderRef, nm, dirs_) ==
    IF display_name # NoDisplay THEN <<LoaderOrigin(display_name, loaderRef, nm, dirs_)>>
    ELSE None

\* ---------------------------------------------------------------- compiler
\* Template(source, origin, name): the compiler collaborator.  What it does
\* is fixed by the source text.
Template(source, origin, nm) ==
    CASE source.body = "good" ->
            Return([kind |-> "template", source |-> source, origin |-> origin, name |-> nm])
      [] source.body = "orphan" -> Raise(TemplateDoesNotExist(ParentName))
      [] OTHER -> Raise(OtherError("TemplateSyntaxError", source.display))

get_template_from_string(source, origin, nm) == Template(source, origin, nm)

\* hasattr(template, 'render')
HasRender(content) == content.kind = "template"

\* ------------------------------------------------------------ BaseLoader
\* a concrete loader's load_template_source over storage value v
load_template_source(l, v, nm, dirs_) ==
    CASE v = "missing" -> Raise(TemplateDoesNotExist("Tried " \o LoaderStr(l) \o "/" \o nm))
      [] v = "ioerror" -> Raise(OtherError("IOError", LoaderStr(l) \o "/" \o nm))
      [] OTHER -> Return(<<[kind |-> "source", body |-> v, display |-> LoaderStr(l) \o "/" \o nm],
                          LoaderStr(l) \o "/" \o nm>>)

\* BaseLoader.load_template / __call__: the content and display name a
\* loader call returns, or the exception it raises
load_template(l, v, nm, dirs_) ==
    LET r == load_template_source(l, v, nm, dirs_) IN
    IF ~r.ok THEN r
    ELSE LET source == r.value[1]
             display_name == r.value[2]
             origin == make_origin(display_name, BoundMethod(l), nm, dirs_)
             t == get_template_from_string(source, origin, nm)
         IN IF t.ok THEN Return(<<t.value, NoDisplay>>)
            ELSE IF IsNotFound(t) THEN Return(<<source, display_name>>)
            ELSE t

\* ----------------------------------------------------- loader registry
\* An entry of settings.TEMPLATE_LOADERS: ref is what the entry's first
\* element is (the dotted path of a loader class, of a function-style loader
\* "legacy", or "object", a value that is not a string); args says whether
\* constructor arguments follow it.
SpecChoices ==
    {[ref |-> r, args |-> FALSE] : r \in Classes \cup {"legacy", "object"}}
        \cup {[ref |-> r, args |-> TRUE] : r \in {"plain", "legacy"}}

\* find_template_loader without the is_usable test of line 131
find_template_loader_keep_unusable(spec, fresh) ==
    IF spec.ref = "object"
    THEN Raise(OtherError("ImproperlyConfigured", "not a callable loader"))
    ELSE IF spec.ref \in Classes
    THEN Return(<<Loader(spec.ref, fresh)>>)
    ELSE IF spec.args
    THEN Raise(OtherError("ImproperlyConfigured", "arguments to function-based loader"))
    ELSE Return(<<Loader("legacy", 0)>>)

\* find_template_loader(loader): fresh is the identity a newly constructed
\* instance gets.  Returns <<loader>>, None for an unusable loader, or raises.
find_template_loader(spec, fresh) ==
    IF spec.ref = "object"
    THEN Raise(OtherError("ImproperlyConfigured", "not a callable loader"))
    ELSE IF spec.ref \in Classes
    THEN LET func == Loader(spec.ref, fresh)
         IN IF ~is_usable(func) THEN Return(None) ELSE Return(<<func>>)
    ELSE IF spec.args
    THEN Raise(OtherError("ImproperlyConfigured", "arguments to function-based loader"))
    ELSE Return(<<Loader("legacy", 0)>>)

\* the loop of get_template_source_loaders (lines 46-50) from entry i on,
\* run without interruption: the chain built, or the configuration error
RECURSIVE build_loaders(_, _, _, _)
build_loaders(specs, i, acc, fresh) ==
    IF i > Len(specs) THEN Return(acc)
    ELSE LET r == find_template_loader(specs[i], fresh + i) IN
         IF ~r.ok THEN r
         ELSE build_loaders(specs, i + 1, IF r.value = None THEN acc ELSE acc \o r.value, fresh)

\* get_template_source_loaders assigning the global in a finally clause: what
\* was built before the error is memoized
get_template_source_loaders_memo_error(cache, specs, fresh) ==
    IF cache = None
    THEN LET r == build_loaders(specs, 1, <<>>, fresh) IN
         IF r.ok THEN [ret |-> r, cache |-> <<r.value>>, assigned |-> 1]
         ELSE [ret |-> r, cache |-> <<<<>>>>, assigned |-> 1]
    ELSE [ret |-> Return(cache[1]), cache |-> cache, assigned |-> 0]

\* get_template_source_loaders() called by one thread alone: the value it
\* returns (or raises), the cache afterwards, and how many times line 51
\* assigned the global
get_template_source_loaders(cache, specs, fresh) ==
    IF cache = None
    THEN LET r == build_loaders(specs, 1, <<>>, fresh) IN
         IF r.ok THEN [ret |-> r, cache |-> <<r.value>>, assigned |-> 1]
         ELSE [ret |-> r, cache |-> cache, assigned |-> 0]
    ELSE [ret |-> Return(cache[1]), cache |-> cache, assigned |-> 0]

\* --------------------------------------------------------- skip_loaders
\* equality by configuration: two instances of one class compare equal
LoaderEq_same_class(a, b) == a.cls = b.cls

\* loader == loader_to_skip (line 179): BaseLoader defines no __eq__, so two
\* loaders are equal exactly when they are the same object
LoaderEq(a, b) == a = b

\* what asking an iterator for its next item comes to: a loader, the end of
\* the iteration, or an exception.  at is the position of the chain the
\* iteration has reached, has_been_skiped the generator's local
Yielded(l, i, h) == [kind |-> "yield", loader |-> l, at |-> i, has_been_skiped |-> h]

Stopped(i, h) == [kind |-> "stop", at |-> i, has_been_skiped |-> h]

Raised(e, i, h) == [kind |-> "raise", exc |-> e, at |-> i, has_been_skiped |-> h]

\* skip_from with the skip point set before the yield test: the marker's own
\* loader is yielded again
RECURSIVE skip_from_inclusive(_, _, _, _)
skip_from_inclusive(lds, i, loader_to_skip, has_been_skiped) ==
    IF i > Len(lds) THEN Stopped(Len(lds), has_been_skiped)
    ELSE LET loader == Unwrap(lds[i])
             passed == has_been_skiped \/ LoaderEq(loader, loader_to_skip)
         IN IF ~passed /\ ~never_skip(loader).ok
            THEN Raised(never_skip(loader).exc, i, has_been_skiped)
            ELSE IF passed \/ IsNeverSkip(loader)
            THEN Yielded(loader, i, has_been_skiped)
            ELSE skip_from_inclusive(lds, i + 1, loader_to_skip, passed)

\* one stretch of the generator skip_loaders, from the top of its loop body
\* at position i of the chain (lines 174-180) to where it stops next: at a
\* loader, line 177 reads never_skip unless has_been_skiped is already true;
\* the generator is suspended at the yield of line 178, or ends with the
\* exception of the read, or with the end of the chain
RECURSIVE skip_from(_, _, _, _)
skip_from(lds, i, loader_to_skip, has_been_skiped) ==
    IF i > Len(lds) THEN Stopped(Len(lds), has_been_skiped)
    ELSE LET loader == Unwrap(lds[i])
         IN IF ~has_been_skiped /\ ~never_skip(loader).ok
            THEN Raised(never_skip(loader).exc, i, has_been_skiped)
            ELSE IF has_been_skiped \/ IsNeverSkip(loader)
            THEN Yielded(loader, i, has_been_skiped)
            ELSE skip_from(lds, i + 1, loader_to_skip,
                           has_been_skiped \/ LoaderEq(loader, loader_to_skip))

\* next() on the generator skip_loaders(lds, skip) (lines 166-180) that has
\* consumed i loaders of the chain: a generator just created runs lines
\* 170-173 and enters the loop; one suspended at the yield for lds[i] goes on
\* with lines 179-180 for that loader and enters the loop body again
skip_loaders(lds, skip, i, has_been_skiped) ==
    IF i = 0 THEN skip_from(lds, 1, Unwrap(skip.loader), FALSE)
    ELSE skip_from(lds, i + 1, Unwrap(skip.loader),
                   has_been_skiped \/ LoaderEq(Unwrap(lds[i]), Unwrap(skip.loader)))

\* next() on the iterator of the list lds that has handed out i items
list_next(lds, i, has_been_skiped) ==
    IF i < Len(lds) THEN Yielded(lds[i + 1], i + 1, has_been_skiped)
    ELSE Stopped(i, has_been_skiped)

\* the test of line 155 without the comparison of names: any marker applies
SkipApplies_any_marker(skip, nm) == skip # None

\* getattr(skip_template, 'loadname', None) == name (line 155)
SkipApplies(skip, nm) == skip # None /\ skip[1].loadname = nm

\* lines 155-156 of find_template: what the for loop iterates is the chain
\* itself ("none"), or a generator over it, made and not yet started
effective_loaders(skip, nm) == IF SkipApplies(skip, nm) THEN "created" ELSE "none"

\* line 157: the for loop asks for its next loader
next_loader(lds, g, skip, i, has_been_skiped) ==
    IF g = "none" THEN list_next(lds, i, has_been_skiped)
    ELSE skip_loaders(lds, skip[1], i, has_been_skiped)

\* ------------------------------------------------------------------ state
VARIABLES
    pc,                       \* where the running operation stands
    op,                       \* the public function the caller invoked
    settings,                 \* settings.TEMPLATE_LOADERS
    template_source_loaders,  \* the module global (line 35): None or <<chain>>
    store,                    \* what each loader's storage holds for each name
    loadersArg,               \* find_template's loaders argument: None or <<chain>>
    name,                     \* the name find_template is looking up
    dirs,                     \* the dirs argument
    skip_template,            \* the skip_template argument: None or <<marker>>
    loaders,                  \* the chain of lines 151-154, which the iteration walks
    gen,                      \* the generator of line 156: "none" when the loop
                              \* iterates the chain itself, else its state
    has_been_skiped,          \* the generator's local has_been_skiped
    idx,                      \* number of loaders of the chain the iteration consumed
    found,                    \* find_template's outcome once its loop ended
    invoked,                  \* log: the loader calls of the running operation
    produced,                 \* log: the loader behind each find_template success
    calls,                    \* find_template calls made so far
    compiles,                 \* log: the compiler calls get_template made
    reloaded,                 \* what reload() of the result's origin returned
    template_name_list,       \* select_template's argument: None or <<names>>
    ci,                       \* index of the candidate being tried
    not_found,                \* select_template's local list of messages
    failmsgs,                 \* log: e.args[0] of every failed candidate
    got,                      \* the outcome of get_template / select_template
    context_instance,         \* the caller's context: None or <<stack of dicts>>
    context0,                 \* log: the caller's context when the call began
    dictionary,               \* the bindings render_to_string was given
    tpc,                      \* per thread: position in get_template_source_loaders
    tloaders,                 \* per thread: the local list loaders (line 46)
    ti,                       \* per thread: index of the next settings entry
    writes,                   \* log: assignments made to template_source_loaders
    late,                     \* log: per thread, the call began after a write
    build_failures,           \* log: registry calls that raised ImproperlyConfigured
    result                    \* the outcome of the operation: None until it ends

cfgVars == <<settings, template_source_loaders>>
findVars == <<loadersArg, name, dirs, skip_template, loaders, gen, has_been_skiped, idx, found>>
logVars == <<store, invoked, produced, calls, compiles, reloaded>>
selVars == <<template_name_list, ci, not_found, failmsgs, got>>
renVars == <<context_instance, context0, dictionary>>
thrVars == <<tpc, tloaders, ti, late>>
regVars == <<thrVars, writes, build_failures>>

vars == <<pc, op, cfgVars, findVars, logVars, selVars, renVars, regVars, result>>

Threads == 1..NumThreads

EmptyStore == [k \in {} |-> Unset]

\* a fresh process: nothing configured, nothing cached, no call made
Fresh ==
    /\ pc = "idle"
    /\ op = "none"
    /\ settings = <<>>
    /\ template_source_loaders = None
    /\ store = EmptyStore
    /\ loadersArg = None
    /\ name = ""
    /\ dirs = None
    /\ skip_template = None
    /\ loaders = <<>>
    /\ gen = "none"
    /\ has_been_skiped = FALSE
    /\ idx = 0
    /\ found = None
    /\ invoked = <<>>
    /\ produced = <<>>
    /\ calls = 0
    /\ compiles = <<>>
    /\ reloaded = None
    /\ template_name_list = None
    /\ ci = 0
    /\ not_found = <<>>
    /\ failmsgs = <<>>
    /\ got = None
    /\ context_instance = None
    /\ context0 = None
    /\ dictionary = None
    /\ tpc = [t \in Threads |-> "idle"]
    /\ tloaders = [t \in Threads |-> <<>>]
    /\ ti = [t \in Threads |-> 0]
    /\ writes = 0
    /\ late = [t \in Threads |-> FALSE]
    /\ build_failures = 0
    /\ result = None

Init == Fresh

\* ------------------------------------------------------------ inputs
Chains == SeqsUpTo(Arena, MaxChain)

\* settings the resolution runs are configured with: loader classes, and the
\* malformed entry that is not a string
ClassSpecs == {sp \in SpecChoices : sp.ref \in Classes \cup {"object"} /\ ~sp.args}

\* settings get_template and find_template are run with: ClassSpecs and the
\* function-style loader
GetSpecs == {sp \in SpecChoices : ~sp.args}

\* instances the registry constructs get identities above the arena's
BuiltBase == Cardinality({l.inst : l \in Arena})

\* the identities thread t's build hands out start after FreshBase(t)
FreshBase(t) == BuiltBase + (t - 1) * Len(settings)

\* the chain the main thread's registry call builds from specs
DefaultChain(specs) ==
    LET r == build_loaders(specs, 1, <<>>, BuiltBase) IN IF r.ok THEN r.value ELSE <<>>

\* skip markers: the origin-bearing template whose loader is to be skipped.
\* Its loader is a member of the chain lds or one of the loaders in others,
\* kept as the instance (line 160) or as its bound method (line 68); a
\* function-style loader has no method and is kept as itself.
Markers(lds, others) ==
    {[loader |-> IF b /\ is_loader_class(l) THEN BoundMethod(l) ELSE l, loadname |-> n] :
        l \in Range(lds) \cup others, n \in Names, b \in BOOLEAN}

\* a loader no default chain holds
Foreign == {Loader("plain", 1)}

\* the skip markers get_template and select_template are called with: None,
\* or a template that came from one of the chain's loaders: its origin keeps
\* the loader's bound method (line 68), or the function itself when the
\* loader is a function (line 160)
TemplateMarkers(lds) ==
    {None} \cup {<<[loader |-> IF l.cls = "legacy" THEN l ELSE BoundMethod(l), loadname |-> n]>> :
                    l \in Range(lds), n \in Names}

\* the key of the storage a loader reads for a name
Key(l, nm) == <<Unwrap(l), nm>>

StoreGet(st, l, nm) == IF Key(l, nm) \in DOMAIN st THEN st[Key(l, nm)] ELSE Unset

StorePut(st, l, nm, v) ==
    [k \in DOMAIN st \cup {Key(l, nm)} |-> IF k = Key(l, nm) THEN v ELSE st[k]]

\* failures counted: one more than the threads, so that the last one counted
\* belongs to a call that began after an earlier call had failed
MaxFailures == NumThreads + 1

\* -------------------------------------------------------- find_template
\* lines 151-156: entering find_template(nm, d, skip, arg) resolves the chain
\* (building and caching the default one when arg is None) and, for a marker
\* of the same name, makes the generator over it; no line of the generator
\* has run yet.
EnterFind(nm, d, skip, arg) ==
    LET g == IF arg = None
             THEN get_template_source_loaders(template_source_loaders, settings', BuiltBase)
             ELSE [ret |-> Return(arg[1]), cache |-> template_source_loaders, assigned |-> 0]
    IN /\ name' = nm
       /\ dirs' = d
       /\ skip_template' = skip
       /\ loadersArg' = arg
       /\ template_source_loaders' = g.cache
       /\ writes' = writes + g.assigned
       /\ build_failures' = IF ~g.ret.ok /\ build_failures < MaxFailures
                            THEN build_failures + 1 ELSE build_failures
       /\ idx' = 0
       /\ has_been_skiped' = FALSE
       /\ calls' = calls + 1
       /\ IF g.ret.ok
          THEN /\ loaders' = g.ret.value
               /\ gen' = effective_loaders(skip, nm)
               /\ found' = None
               /\ pc' = "find"
          ELSE /\ loaders' = <<>>
               /\ gen' = "none"
               /\ found' = <<g.ret>>
               /\ pc' = "found"

\* find_template(name, dirs, skip_template, loaders) called in a fresh process
CallFindTemplate ==
    /\ pc = "idle"
    /\ op' = "find_template"
    /\ \E arg \in {None} \cup {<<c>> : c \in Chains}, nm \in Names, d \in DirChoices :
         \E sp \in IF arg = None THEN SeqsUpTo(GetSpecs, MaxSpecs) ELSE {<<>>} :
            /\ settings' = sp
            /\ \E skip \in {None} \cup
                      {<<m>> : m \in IF arg = None THEN Markers(DefaultChain(sp), Foreign)
                                     ELSE Markers(arg[1], Arena)} :
                  EnterFind(nm, d, skip, arg)
    /\ UNCHANGED <<store, invoked, produced, compiles, reloaded, selVars, renVars, thrVars, result>>

\* a function-style loader called with (name, dirs, skip_template): it hands
\* back the source it read and its display name, uncompiled
legacy_call(l, v, nm, d, skip) == load_template_source(l, v, nm, d)

\* line 159: the outcome of calling loader l, whose storage holds v.  An
\* instance of a loader class goes through __call__ to load_template.
loader_call(l, v, nm, d, skip) ==
    IF l.cls = "legacy" THEN legacy_call(l, v, nm, d, skip) ELSE load_template(l, v, nm, d)

\* find_iteration without the return inside the loop: the loop goes on after
\* a loader returned
find_iteration_no_return(l, r, nm, d) ==
    IF r.ok THEN None
    ELSE IF IsNotFound(r) THEN None
    ELSE <<r>>

\* find_iteration with a bare except: every exception counts as not found
find_iteration_catch_all(l, r, nm, d) ==
    IF r.ok THEN <<Return(<<r.value[1], make_origin(r.value[2], l, nm, d)>>)>>
    ELSE None

\* what find_template does with the outcome r of calling loader l (lines
\* 158-162): its own outcome, or None when the loop goes on
find_iteration(l, r, nm, d) ==
    IF r.ok THEN <<Return(<<r.value[1], make_origin(r.value[2], l, nm, d)>>)>>
    ELSE IF IsNotFound(r) THEN None
    ELSE <<r>>

\* lines 157-162, one iteration of the for loop: the iteration hands over its
\* next loader (the generator runs up to its next yield), and the loader is
\* called
FindStep ==
    /\ pc = "find"
    /\ LET n == next_loader(loaders, gen, skip_template, idx, has_been_skiped)
       IN /\ n.kind = "yield"
          /\ \E v \in StoreVals :
               LET l == n.loader
                   r == loader_call(l, v, name, dirs, skip_template)
                   f == find_iteration(l, r, name, dirs)
               IN /\ StoreGet(store, l, name) \in {Unset, v}
                  /\ store' = StorePut(store, l, name, v)
                  /\ invoked' = Append(invoked,
                                       [call |-> calls, loader |-> l, name |-> name, out |-> r])
                  /\ idx' = n.at
                  /\ has_been_skiped' = n.has_been_skiped
                  /\ gen' = IF gen = "none" THEN "none" ELSE "suspended"
                  /\ found' = f
                  /\ produced' = IF f # None /\ f[1].ok THEN Append(produced, l) ELSE produced
                  /\ pc' = IF f = None THEN "find" ELSE "found"
    /\ UNCHANGED <<op, cfgVars, loadersArg, name, dirs, skip_template, loaders, calls,
                   compiles, reloaded, selVars, renVars, regVars, result>>

\* line 163: every loader raised TemplateDoesNotExist
find_exhausted(nm) == Raise(TemplateDoesNotExist(nm))

\* the for loop of line 157 ends: the iteration is over and line 163 raises,
\* or the generator raised and its exception leaves find_template
FindExhausted ==
    /\ pc = "find"
    /\ LET n == next_loader(loaders, gen, skip_template, idx, has_been_skiped)
       IN /\ n.kind # "yield"
          /\ found' = IF n.kind = "raise" THEN <<Raise(n.exc)>> ELSE <<find_exhausted(name)>>
          /\ idx' = n.at
          /\ has_been_skiped' = n.has_been_skiped
          /\ gen' = IF gen = "none" THEN "none" ELSE "closed"
    /\ pc' = "found"
    /\ UNCHANGED <<op, cfgVars, loadersArg, name, dirs, skip_template, loaders,
                   logVars, selVars, renVars, regVars, result>>

\* find_template hands its outcome to the caller
FindReturn ==
    /\ pc = "found"
    /\ op = "find_template"
    /\ result' = found
    /\ pc' = "done"
    /\ UNCHANGED <<op, cfgVars, findVars, logVars, selVars, renVars, regVars>>

\* the (loader, name) of the template a find_template call returned: its
\* origin, or for a compiled template the origin it was compiled with
MarkerOf(value) ==
    LET o == IF value[2] # None THEN value[2][1] ELSE value[1].origin[1]
    IN [loader |-> o.loader, loadname |-> o.loadname]

\* calls after which no further find_template call is made
MaxCalls == MaxChain + 2

\* reload calling the loader instance where the origin holds its bound
\* method load_template_source
reload_through_load_template(origin, st) ==
    LET v == StoreGet(st, origin.loader, origin.loadname)
        r == loader_call(Unwrap(origin.loader), v, origin.loadname, origin.dirs, None)
    IN IF r.ok THEN Return(r.value[1]) ELSE r

\* LoaderOrigin.reload (lines 102-103) over the storage st:
\* self.loader(self.loadname, self.dirs)[0].  self.loader is a loader (line
\* 160) or the bound method load_template_source of one (line 68).
reload(origin, st) ==
    LET v == StoreGet(st, origin.loader, origin.loadname)
        r == IF origin.loader.bound
             THEN load_template_source(Unwrap(origin.loader), v, origin.loadname, origin.dirs)
             ELSE loader_call(origin.loader, v, origin.loadname, origin.dirs, None)
    IN IF r.ok THEN Return(r.value[1]) ELSE r

\* the origin a successful resolution produced: the one find_template
\* returned (line 160), or else the one the loader's load_template made (line
\* 68) and compiled the template with
OriginOf(value) == IF value[2] # None THEN value[2] ELSE value[1].origin

\* the caller reloads the origin right after find_template returned
Reload ==
    /\ pc = "done"
    /\ op = "find_template"
    /\ result[1].ok
    /\ reloaded = None
    /\ OriginOf(result[1].value) # None
    /\ reloaded' = <<reload(OriginOf(result[1].value)[1], store)>>
    /\ UNCHANGED <<pc, op, cfgVars, findVars, store, invoked, produced, calls, compiles,
                   selVars, renVars, regVars, result>>

\* the returned template resolves "the next template with my name": the same
\* lookup again, with the template just returned as skip_template
FindAgain ==
    /\ pc = "done"
    /\ op = "find_template"
    /\ result[1].ok
    /\ calls < MaxCalls
    /\ settings' = settings
    /\ EnterFind(name, dirs, <<MarkerOf(result[1].value)>>, loadersArg)
    /\ result' = None
    /\ reloaded' = None
    /\ UNCHANGED <<op, store, invoked, produced, compiles, selVars, renVars, thrVars>>

\* ---------------------------------------------------------- get_template
\* get_template handing on whatever find_template returned
get_template_compiles_never(f, nm) == <<>>

\* lines 189-191: the compiler calls get_template makes once find_template
\* returned f, each with the arguments it passes
get_template_compiles(f, nm) ==
    IF f.ok /\ ~HasRender(f.value[1])
    THEN <<[source |-> f.value[1], origin |-> f.value[2], name |-> nm]>>
    ELSE <<>>

\* get_template_rest renaming the compiler's TemplateDoesNotExist after the
\* requested template
get_template_rest_requested_name(f, nm) ==
    IF ~f.ok THEN f
    ELSE LET template == f.value[1]
             cs == get_template_compiles(f, nm)
         IN IF cs # <<>>
            THEN LET t == get_template_from_string(cs[1].source, cs[1].origin, cs[1].name)
                 IN IF t.ok THEN Return(t.value)
                    ELSE IF IsNotFound(t) THEN Raise(TemplateDoesNotExist(nm))
                    ELSE t
            ELSE Return(template)

\* lines 188-192: what get_template makes of find_template's outcome f
get_template_rest(f, nm) ==
    IF ~f.ok THEN f
    ELSE LET template == f.value[1]
             cs == get_template_compiles(f, nm)
         IN IF cs # <<>>
            THEN LET t == get_template_from_string(cs[1].source, cs[1].origin, cs[1].name)
                 IN IF t.ok THEN Return(t.value) ELSE t
            ELSE Return(template)

\* get_template(template_name, dirs, skip_template) called in a fresh process
CallGetTemplate ==
    /\ pc = "idle"
    /\ op' = "get_template"
    /\ \E nm \in Names, d \in DirChoices, sp \in SeqsUpTo(GetSpecs, MaxSpecs) :
         /\ settings' = sp
         /\ \E skip \in TemplateMarkers(DefaultChain(sp)) :
               EnterFind(nm, d, skip, None)
    /\ UNCHANGED <<store, invoked, produced, compiles, reloaded, selVars, renVars, thrVars, result>>

\* lines 188-192: find_template came back to get_template
GetTemplate ==
    /\ pc = "found"
    /\ op # "find_template"
    /\ got' = <<get_template_rest(found[1], name)>>
    /\ LET cs == get_template_compiles(found[1], name)
       IN compiles' = compiles \o [i \in 1..Len(cs) |-> [call |-> calls, args |-> cs[i]]]
    /\ pc' = "got"
    /\ UNCHANGED <<op, cfgVars, findVars, store, invoked, produced, calls, reloaded,
                   template_name_list, ci, not_found, failmsgs, renVars, regVars, result>>

GetTemplateReturn ==
    /\ pc = "got"
    /\ op = "get_template"
    /\ result' = got
    /\ pc' = "done"
    /\ UNCHANGED <<op, cfgVars, findVars, logVars, selVars, renVars, regVars>>

\* ------------------------------------------------------- select_template
\* ', '.join(msgs)
RECURSIVE Join(_)
Join(msgs) ==
    IF msgs = <<>> THEN ""
    ELSE IF Len(msgs) = 1 THEN msgs[1]
    ELSE msgs[1] \o ", " \o Join(Tail(msgs))

\* remember without the membership test of line 233
remember_all(nf, msg) == Append(nf, msg)

\* lines 233-234: remember a failure message once
remember(nf, msg) == IF msg \in Range(nf) THEN nf ELSE Append(nf, msg)

\* the error kind of an empty candidate list as the design document names it
select_empty_invalid == Raise(OtherError("InvalidArgument", "No template names provided"))

\* lines 226-227: the candidate list is empty
select_empty == Raise(TemplateDoesNotExist("No template names provided"))

\* line 237: no candidate could be loaded
select_exhausted(nf) == Raise(TemplateDoesNotExist(Join(nf)))

\* the for loop taking the candidates last to first
candidate_reversed(names, i) == names[Len(names) + 1 - i]

\* line 229: the candidate the i-th pass of the for loop takes
candidate(names, i) == names[i]

\* lines 226-231: select_template(names, d, skip) starts
EnterSelect(names, d, skip) ==
    /\ template_name_list' = <<names>>
    /\ not_found' = <<>>
    /\ failmsgs' = <<>>
    /\ IF names = <<>>
       THEN /\ got' = <<select_empty>>
            /\ ci' = 0
            /\ pc' = "selected"
            /\ dirs' = d
            /\ skip_template' = skip
            /\ UNCHANGED <<template_source_loaders, loadersArg, name, loaders, gen,
                           has_been_skiped, idx, found, calls, writes, build_failures>>
       ELSE /\ got' = None
            /\ ci' = 1
            /\ EnterFind(candidate(names, 1), d, skip, None)

\* select_template(template_name_list, dirs, skip_template) called in a
\* fresh process
CallSelectTemplate ==
    /\ pc = "idle"
    /\ op' = "select_template"
    /\ \E names \in SeqsUpTo(Names, MaxNames), d \in {None},
          sp \in SeqsUpTo(ClassSpecs, MaxSpecs) :
         /\ settings' = sp
         /\ \E skip \in TemplateMarkers(DefaultChain(sp)) :
               EnterSelect(names, d, skip)
    /\ UNCHANGED <<store, invoked, produced, compiles, reloaded, renVars, thrVars, result>>

\* lines 229-237: get_template came back to select_template's loop
SelectStep ==
    /\ pc = "got"
    /\ template_name_list # None
    /\ IF got[1].ok \/ ~IsNotFound(got[1])
       THEN \* the template is returned, or the exception is not caught
            /\ pc' = "selected"
            /\ UNCHANGED <<cfgVars, findVars, logVars, selVars, writes, build_failures>>
       ELSE /\ not_found' = remember(not_found, got[1].exc.args[1])
            /\ failmsgs' = Append(failmsgs, got[1].exc.args[1])
            /\ UNCHANGED <<template_name_list, settings, store, invoked, produced, compiles,
                           reloaded>>
            /\ IF ci < Len(template_name_list[1])
               THEN /\ ci' = ci + 1
                    /\ got' = None
                    /\ EnterFind(candidate(template_name_list[1], ci + 1), dirs,
                                 skip_template, None)
               ELSE /\ got' = <<select_exhausted(not_found')>>
                    /\ pc' = "selected"
                    /\ UNCHANGED <<ci, template_source_loaders, findVars, calls, writes,
                                   build_failures>>
    /\ UNCHANGED <<op, renVars, thrVars, result>>

SelectReturn ==
    /\ pc = "selected"
    /\ op = "select_template"
    /\ result' = got
    /\ pc' = "done"
    /\ UNCHANGED <<op, cfgVars, findVars, logVars, selVars, renVars, regVars>>

\* ------------------------------------------------------ render_to_string
\* the bindings a caller passes
Dicts == {"d1"}

\* the context stacks a caller's context may hold when the call begins
Contexts == {<<"builtins", "request">>}

\* context_instance.push(dictionary): a new layer on the context's stack
push(stack, d) == Append(stack, d)

\* context.pop(), what the context manager returned by push does on exit
pop(stack) == SubSeq(stack, 1, Len(stack) - 1)

\* leaving the block without a context manager: the pop is skipped when
\* render raised
with_exit_no_finally(stack, raised) == IF raised THEN stack ELSE pop(stack)

\* leaving the with block of lines 220-221, normally or by an exception
with_exit(stack, raised) == pop(stack)

\* t.render(context): the rendering collaborator returns text or raises; it
\* leaves the context's stack as it found it
RenderOutcomes(t) ==
    {Return("text of " \o t.name), Raise(OtherError("RenderError", t.name))}

\* render_to_string(template_name, dictionary, context_instance, dirs)
\* called in a fresh process: lines 211-215
CallRenderToString ==
    /\ pc = "idle"
    /\ op' = "render_to_string"
    /\ \E d \in {None}, sp \in SeqsUpTo(ClassSpecs, MaxSpecs),
          dict \in {None} \cup {<<x>> : x \in Dicts},
          ctx \in {None} \cup {<<c>> : c \in Contexts} :
         /\ settings' = sp
         /\ dictionary' = dict
         /\ context_instance' = ctx
         /\ context0' = ctx
         /\ \/ \E names \in SeqsUpTo(Names, MaxNames) :
                  EnterSelect(names, d, None)
            \/ \E nm \in Names :
                  /\ EnterFind(nm, d, None, None)
                  /\ UNCHANGED selVars
    /\ UNCHANGED <<store, invoked, produced, compiles, reloaded, thrVars, result>>

\* dictionary = dictionary or {}
Bindings == IF dictionary = None THEN "empty" ELSE dictionary[1]

\* lines 213-220: the template came back (or the lookup raised); without a
\* context the template is rendered with a fresh one, with a context the
\* bindings are pushed
RenderEnter ==
    /\ op = "render_to_string"
    /\ \/ pc = "got" /\ template_name_list = None
       \/ pc = "selected"
    /\ IF ~got[1].ok
       THEN /\ result' = got
            /\ pc' = "done"
            /\ UNCHANGED context_instance
       ELSE IF context_instance = None
       THEN /\ \E out \in RenderOutcomes(got[1].value) : result' = <<out>>
            /\ pc' = "done"
            /\ UNCHANGED context_instance
       ELSE /\ context_instance' = <<push(context_instance[1], Bindings)>>
            /\ pc' = "render"
            /\ UNCHANGED result
    /\ UNCHANGED <<op, cfgVars, findVars, logVars, selVars, context0, dictionary, regVars>>

\* line 221 and the end of the with block
RenderExit ==
    /\ pc = "render"
    /\ \E out \in RenderOutcomes(got[1].value) :
         /\ result' = <<out>>
         /\ context_instance' = <<with_exit(context_instance[1], ~out.ok)>>
    /\ pc' = "done"
    /\ UNCHANGED <<op, cfgVars, findVars, logVars, selVars, context0, dictionary, regVars>>

\* -------------------------------------------- get_template_source_loaders
\* threads calling get_template_source_loaders() at the same time
CallRegistry ==
    /\ pc = "idle"
    /\ op' = "get_template_source_loaders"
    /\ pc' = "threads"
    /\ \E sp \in SeqsUpTo(SpecChoices, MaxSpecs) : settings' = sp
    /\ UNCHANGED <<template_source_loaders, findVars, logVars, selVars, renVars, regVars,
                   result>>

\* thread t enters the function
ThreadCall(t) ==
    /\ pc = "threads"
    /\ tpc[t] = "idle"
    /\ tpc' = [tpc EXCEPT ![t] = "check"]
    /\ late' = [late EXCEPT ![t] = writes > 0]
    /\ UNCHANGED <<pc, op, cfgVars, findVars, logVars, selVars, renVars, tloaders, ti,
                   writes, build_failures, result>>

\* the test of line 45 without the test: the chain is always rebuilt
must_build_always(cache) == TRUE

\* line 45: is the cache still unset?
must_build(cache) == cache = None

\* lines 45-46: thread t reads the global
ThreadCheck(t) ==
    /\ pc = "threads"
    /\ tpc[t] = "check"
    /\ IF must_build(template_source_loaders)
       THEN /\ tpc' = [tpc EXCEPT ![t] = "build"]
            /\ tloaders' = [tloaders EXCEPT ![t] = <<>>]
            /\ ti' = [ti EXCEPT ![t] = 1]
       ELSE /\ tpc' = [tpc EXCEPT ![t] = "return"]
            /\ UNCHANGED <<tloaders, ti>>
    /\ UNCHANGED <<pc, op, cfgVars, findVars, logVars, selVars, renVars, writes, late,
                   build_failures, result>>

\* lines 47-50, one iteration: resolve the next entry of the settings
ThreadBuild(t) ==
    /\ pc = "threads"
    /\ tpc[t] = "build"
    /\ ti[t] <= Len(settings)
    /\ LET r == find_template_loader(settings[ti[t]], FreshBase(t) + ti[t])
       IN IF ~r.ok
          THEN \* ImproperlyConfigured leaves the function
               /\ tpc' = [tpc EXCEPT ![t] = "idle"]
               /\ tloaders' = [tloaders EXCEPT ![t] = <<>>]
               /\ ti' = [ti EXCEPT ![t] = 0]
               /\ build_failures' = IF build_failures < MaxFailures THEN build_failures + 1
                                    ELSE build_failures
          ELSE /\ tloaders' = [tloaders EXCEPT ![t] =
                                  IF r.value = None THEN @ ELSE @ \o r.value]
               /\ ti' = [ti EXCEPT ![t] = @ + 1]
               /\ UNCHANGED <<tpc, build_failures>>
    /\ UNCHANGED <<pc, op, cfgVars, findVars, logVars, selVars, renVars, writes, late, result>>

\* line 51: thread t assigns the global
ThreadWrite(t) ==
    /\ pc = "threads"
    /\ tpc[t] = "build"
    /\ ti[t] > Len(settings)
    /\ template_source_loaders' = <<tloaders[t]>>
    /\ writes' = writes + 1
    /\ tpc' = [tpc EXCEPT ![t] = "return"]
    /\ UNCHANGED <<pc, op, settings, findVars, logVars, selVars, renVars, tloaders, ti,
                   late, build_failures, result>>

\* line 52: thread t returns the global
ThreadReturn(t) ==
    /\ pc = "threads"
    /\ tpc[t] = "return"
    /\ tpc' = [tpc EXCEPT ![t] = "idle"]
    /\ tloaders' = [tloaders EXCEPT ![t] = <<>>]
    /\ ti' = [ti EXCEPT ![t] = 0]
    /\ UNCHANGED <<pc, op, cfgVars, findVars, logVars, selVars, renVars, writes, late,
                   build_failures, result>>

\* no call is running: the threads are done
RegistryEnd ==
    /\ pc = "threads"
    /\ \A t \in Threads : tpc[t] = "idle"
    /\ pc' = "done"
    /\ UNCHANGED <<op, cfgVars, findVars, logVars, selVars, renVars, regVars, result>>

\* the process ends
Exit ==
    /\ pc = "done"
    /\ pc' = "idle"
    /\ op' = "none"
    /\ settings' = <<>>
    /\ template_source_loaders' = None
    /\ store' = EmptyStore
    /\ loadersArg' = None
    /\ name' = ""
    /\ dirs' = None
    /\ skip_template' = None
    /\ loaders' = <<>>
    /\ gen' = "none"
    /\ has_been_skiped' = FALSE
    /\ idx' = 0
    /\ found' = None
    /\ invoked' = <<>>
    /\ produced' = <<>>
    /\ calls' = 0
    /\ compiles' = <<>>
    /\ reloaded' = None
    /\ template_name_list' = None
    /\ ci' = 0
    /\ not_found' = <<>>
    /\ failmsgs' = <<>>
    /\ got' = None
    /\ context_instance' = None
    /\ context0' = None
    /\ dictionary' = None
    /\ tpc' = [t \in Threads |-> "idle"]
    /\ tloaders' = [t \in Threads |-> <<>>]
    /\ ti' = [t \in Threads |-> 0]
    /\ writes' = 0
    /\ late' = [t \in Threads |-> FALSE]
    /\ build_failures' = 0
    /\ result' = None

Next ==
    \/ CallFindTemplate
    \/ FindStep
    \/ FindExhausted
    \/ FindReturn
    \/ FindAgain
    \/ Reload
    \/ CallGetTemplate
    \/ GetTemplate
    \/ GetTemplateReturn
    \/ CallSelectTemplate
    \/ SelectStep
    \/ SelectReturn
    \/ CallRenderToString
    \/ RenderEnter
    \/ RenderExit
    \/ CallRegistry
    \/ \E t \in Threads : ThreadCall(t)
    \/ \E t \in Threads : ThreadCheck(t)
    \/ \E t \in Threads : ThreadBuild(t)
    \/ \E t \in Threads : ThreadWrite(t)
    \/ \E t \in Threads : ThreadReturn(t)
    \/ RegistryEnd
    \/ Exit

Spec == Init /\ [][Next]_vars

\* ================================================================ claims
\* the chain find_template iterates before the skip filter is applied
CurrentChain ==
    IF loadersArg # None THEN loadersArg[1]
    ELSE IF template_source_loaders # None THEN template_source_loaders[1]
    ELSE <<>>

\* find_template is past line 151 with a chain in hand (the registry did not
\* raise a configuration error)
InFind == pc \in {"find", "found"} /\ (loadersArg # None \/ template_source_loaders # None)

Skipping == SkipApplies(skip_template, name)

\* the elements of s at the positions in P, in order
SubSeqAt(s, P) ==
    LET F[i \in 0..Len(s)] ==
            IF i = 0 THEN <<>> ELSE IF i \in P THEN Append(F[i - 1], s[i]) ELSE F[i - 1]
    IN F[Len(s)]

\* positions of the chain holding the loader object the marker names
MarkerPositions ==
    {i \in 1..Len(CurrentChain) : CurrentChain[i] = Unwrap(skip_template[1].loader)}

FirstMarkerPosition == CHOOSE i \in MarkerPositions : \A j \in MarkerPositions : i <= j

NeverSkipPositions == {i \in 1..Len(CurrentChain) : IsNeverSkip(CurrentChain[i])}

\* the chain holds no loader object twice
ChainDistinct ==
    \A i, j \in 1..Len(CurrentChain) : CurrentChain[i] = CurrentChain[j] => i = j

PosInChain(l) == CHOOSE i \in 1..Len(CurrentChain) : CurrentChain[i] = l

IsThisCall(e) == e.call = calls

\* the loader calls the running find_template call has made
Now == SelectSeq(invoked, IsThisCall)

\* the loader calls made so far are the first loaders of s, in order
InvokedPrefixOf(s) ==
    /\ Len(Now) <= Len(s)
    /\ \A i \in 1..Len(Now) : Now[i].loader = s[i] /\ Now[i].name = name

LastInvoked == Now[Len(Now)]

\* the loaders the for loop of line 157 was handed so far: each was called
Handed == [i \in 1..Len(Now) |-> Now[i].loader]

\* find_template reached line 163: its iteration came to the end of the chain
LoopDrained == pc = "found" /\ IsNotFound(found[1])

\* C1: without an applicable skip marker find_template calls the loaders in
\* chain order, every call before the last one raised TemplateDoesNotExist,
\* and it returns the content of the first loader that returned one; no
\* loader after that one is called.
C1_FirstSuccessWins ==
    (InFind /\ ~Skipping) =>
        /\ InvokedPrefixOf(CurrentChain)
        /\ \A i \in 1..Len(Now) : i < Len(Now) => IsNotFound(Now[i].out)
        /\ (pc = "find") => \A i \in 1..Len(Now) : IsNotFound(Now[i].out)
        /\ (pc = "found" /\ found[1].ok) =>
              /\ Len(Now) > 0
              /\ LastInvoked.out.ok
              /\ found[1].value[1] = LastInvoked.out.value[1]
        /\ (pc = "found" /\ IsNotFound(found[1])) =>
              /\ Len(Now) = Len(CurrentChain)
              /\ \A i \in 1..Len(Now) : IsNotFound(Now[i].out)

\* C1 witness: the second of three loaders returned the content, the third
\* was not called
C1_Witness ==
    /\ InFind /\ ~Skipping /\ pc = "found" /\ found[1].ok
    /\ Len(CurrentChain) = 3 /\ Len(Now) = 2

\* the loaders after the marker's loader and the never-skip loaders, each at
\* its place in chain order
AfterMarkerOrNeverSkip ==
    SubSeqAt(CurrentChain,
             {i \in 1..Len(CurrentChain) : i > FirstMarkerPosition} \cup NeverSkipPositions)

\* C2: with a marker recorded for the name looked up, whose loader occurs in
\* the chain, find_template calls only the loaders after the marker's loader
\* and the never-skip loaders, each at its place in chain order: the loaders
\* called are the first of these, and all of these once find_template has
\* come to line 163.
C2_SkipTriesOnlyLater ==
    (InFind /\ Skipping /\ MarkerPositions # {}) =>
        /\ gen # "none"
        /\ InvokedPrefixOf(AfterMarkerOrNeverSkip)
        /\ LoopDrained => Handed = AfterMarkerOrNeverSkip

\* C2 witness: chain [L1, L2, L3] of plain loaders, marker from L2, and L3
\* alone was called
C2_Witness ==
    /\ InFind /\ Skipping /\ pc = "found"
    /\ Len(CurrentChain) = 3 /\ NeverSkipPositions = {}
    /\ MarkerPositions = {2} /\ ChainDistinct
    /\ Len(Now) = 1 /\ Now[1].loader = CurrentChain[3]

\* C4: whatever the marker, every never-skip loader of the chain is among the
\* loaders the skip filter yields, and the yielded loaders keep chain order.
\* The code breaks this where a function-style loader stands before the skip
\* point: the filter raises there and yields no loader after it.
\* Checked where the loop took all the generator had: no loader called
\* returned or raised another error than TemplateDoesNotExist.
C4_NeverSkipAlwaysYielded ==
    (InFind /\ Skipping /\ pc = "found" /\ \A i \in 1..Len(Now) : IsNotFound(Now[i].out)) =>
        \E P \in SUBSET (1..Len(CurrentChain)) :
            /\ NeverSkipPositions \subseteq P
            /\ Handed = SubSeqAt(CurrentChain, P)

\* C4, the failing case: a function-style loader stands first, a never-skip
\* loader after it; the filter raised AttributeError and the never-skip
\* loader was neither yielded nor called
C4_FilterRaisedBeforeNeverSkip ==
    /\ InFind /\ Skipping /\ pc = "found"
    /\ Len(CurrentChain) = 2 /\ ~is_loader_class(CurrentChain[1])
    /\ NeverSkipPositions = {2}
    /\ gen = "closed" /\ idx = 1 /\ Now = <<>>
    /\ found[1] = never_skip(CurrentChain[1])

\* C5: when every loader called raised TemplateDoesNotExist (or none was
\* called), find_template raises TemplateDoesNotExist(name) with the name it
\* was given, not a loader's message.  The code breaks this where the skip
\* filter raised: find_template ends with AttributeError.
C5_NotFoundCarriesName ==
    (InFind /\ pc = "found" /\ \A i \in 1..Len(Now) : IsNotFound(Now[i].out)) =>
        found[1] = Raise(TemplateDoesNotExist(name))

\* C5, the failing case: the chain is one function-style loader and the
\* marker names it; no loader was called and find_template ended with
\* AttributeError
C5_NoLoaderCalledAttributeError ==
    /\ InFind /\ Skipping /\ pc = "found"
    /\ Len(CurrentChain) = 1 /\ MarkerPositions = {1}
    /\ Now = <<>>
    /\ ~found[1].ok /\ found[1].exc.type = "AttributeError"

\* ---- C3
\* repeated lookups of one name, each with the previous result as marker
Repeating == op = "find_template" /\ (loadersArg # None \/ template_source_loaders # None)

\* C3 as stated: in the repeated lookups no call returns content from the
\* loader that produced its marker, whatever the chain.
C3_NeverSameLoaderAgain ==
    Repeating => \A i \in 2..Len(produced) : produced[i] # produced[i - 1]

\* C3 amended: in a chain that holds no loader twice, a call whose marker
\* came from a loader not flagged never-skip does not return content from
\* that loader; while no never-skip loader has produced a result, each result
\* comes from a strictly later chain position than the one before, so at most
\* len(chain) calls succeed and the call after them ends the sequence.
C3_SkipMakesProgress ==
    (Repeating /\ ChainDistinct) =>
        /\ \A i \in 2..Len(produced) :
              ~IsNeverSkip(produced[i - 1]) => produced[i] # produced[i - 1]
        /\ (\A i \in 1..Len(produced) : ~IsNeverSkip(produced[i])) =>
              /\ \A i \in 2..Len(produced) :
                    PosInChain(produced[i]) > PosInChain(produced[i - 1])
              /\ Len(produced) <= Len(CurrentChain)
              /\ calls <= Len(CurrentChain) + 1

\* C3 witness: three distinct plain loaders all hold the template; the
\* fourth lookup ends with TemplateDoesNotExist
C3_Witness ==
    /\ Repeating /\ ChainDistinct /\ pc = "done"
    /\ Len(CurrentChain) = 3 /\ NeverSkipPositions = {}
    /\ produced = CurrentChain
    /\ calls = 4
    /\ IsNotFound(result[1])

\* ---- C6
\* the messages of msgs without repetitions, each at its first occurrence
FirstSeen(msgs) == SubSeqAt(msgs, {i \in 1..Len(msgs) : \A j \in 1..(i - 1) : msgs[j] # msgs[i]})

Candidates == template_name_list[1]

\* select_template ended after every candidate raised TemplateDoesNotExist
AllCandidatesFailed ==
    /\ pc \in {"selected", "done"}
    /\ template_name_list # None
    /\ Candidates # <<>>
    /\ Len(failmsgs) = Len(Candidates)

\* C6: when every candidate fails with TemplateDoesNotExist, select_template
\* raises TemplateDoesNotExist whose message joins the candidates' messages
\* with ", ", each distinct message once, in order of first occurrence.
C6_AggregateMessage ==
    AllCandidatesFailed => got[1] = Raise(TemplateDoesNotExist(Join(FirstSeen(failmsgs))))

\* C6 witness: two different candidates failed with the same message and the
\* aggregate names it once
C6_Witness ==
    /\ AllCandidatesFailed
    /\ Len(failmsgs) >= 2
    /\ \E i, j \in 1..Len(failmsgs) : i < j /\ failmsgs[i] = failmsgs[j]
    /\ \E i, j \in 1..Len(failmsgs) : failmsgs[i] # failmsgs[j]
    /\ Len(not_found) = 2

\* ---- C7
EmptySelect == pc \in {"selected", "done"} /\ template_name_list = <<<<>>>>

\* C7 as stated: an empty candidate list fails with InvalidArgument, never
\* with the not-found error, and no loader is called.
C7_EmptyIsInvalidArgument ==
    EmptySelect =>
        /\ ~got[1].ok
        /\ got[1].exc.type = "InvalidArgument"
        /\ invoked = <<>>

\* C7 amended: an empty candidate list fails with TemplateDoesNotExist whose
\* message is "No template names provided"; no loader is called and the
\* loader chain is not even built.
C7_EmptyIsNotFound ==
    EmptySelect =>
        /\ got[1] = Raise(TemplateDoesNotExist("No template names provided"))
        /\ invoked = <<>>
        /\ calls = 0
        /\ template_source_loaders = None

\* C7 witness: select_template([]) has ended
C7_Witness == EmptySelect /\ pc = "done" /\ op = "select_template" /\ ~result[1].ok

\* ---- C8
IsOtherError(r) == ~r.ok /\ ~IsNotFound(r)

\* C8: once a loader raised an error other than TemplateDoesNotExist, that
\* call is the last loader call made, the lookup is over, and find_template,
\* get_template, select_template and the operation as a whole end with that
\* very error.
C8_OtherErrorsPropagate ==
    \A i \in 1..Len(invoked) :
        IsOtherError(invoked[i].out) =>
            /\ i = Len(invoked)
            /\ invoked[i].call = calls
            /\ pc \in {"found", "got", "selected", "done"}
            /\ found[1] = invoked[i].out
            /\ pc \in {"got", "selected"} => got[1] = invoked[i].out
            /\ pc = "done" => result[1] = invoked[i].out

\* C8 witness: select_template's first candidate hit an I/O error in the
\* second loader; the second candidate was never looked up
C8_Witness ==
    /\ pc = "done" /\ op = "select_template"
    /\ Len(Candidates) >= 2 /\ calls = 1
    /\ Len(invoked) = 2 /\ IsOtherError(invoked[2].out)
    /\ result[1] = invoked[2].out

\* ---- C9
\* C9 as stated: under any interleaving the global is assigned at most once.
C9_BuiltAtMostOnce == writes <= 1

\* C9 amended: a call that begins after the global was assigned neither
\* builds nor assigns; a call that began before may still assign, so the
\* chain is built at most once per thread, and once by a single thread.
C9_NoBuildAfterWrite ==
    /\ \A t \in Threads : tpc[t] = "build" => ~late[t]
    /\ writes <= NumThreads
    /\ writes > 0 => template_source_loaders # None

\* C9 witness: a call that began after the assignment found the cache set
C9_Witness ==
    \E t \in Threads : late[t] /\ tpc[t] = "return" /\ writes = 1

\* ---- C10
\* C10: when render_to_string has ended, the caller's context holds the
\* stack it held before the call: after a successful render, after render
\* raised, and after the template lookup failed.  The stack differs from it
\* only while render runs inside the with block, which is entered only with
\* a template in hand.
C10_ContextRestored ==
    op = "render_to_string" =>
        /\ pc # "render" => context_instance = context0
        /\ pc = "render" => got[1].ok /\ context_instance # context0

\* C10 witness: a context was given, the bindings were pushed, and render
\* raised
C10_Witness ==
    /\ op = "render_to_string" /\ pc = "done" /\ context0 # None
    /\ got[1].ok
    /\ ~result[1].ok /\ result[1].exc.type = "RenderError"

\* ---- C11
\* get_template has ended with TemplateDoesNotExist for the name looked up
GetEndedNotFound ==
    /\ pc = "got" \/ (pc = "done" /\ op = "get_template")
    /\ IsNotFound(got[1])

\* select_template has ended with TemplateDoesNotExist for a list of names
SelectEndedNotFound ==
    /\ pc \in {"selected", "done"}
    /\ template_name_list # None
    /\ Candidates # <<>>
    /\ IsNotFound(got[1])

\* in the k-th find_template call some loader returned a template
CallFoundOne(k) == \E i \in 1..Len(invoked) : invoked[i].call = k /\ invoked[i].out.ok

\* C11 as stated: a TemplateDoesNotExist leaving get_template names the
\* requested template, and one leaving select_template is made of requested
\* names only.
C11_OnlyRequestedNames ==
    /\ GetEndedNotFound => got[1].exc.args[1] = name
    /\ SelectEndedNotFound =>
          /\ \A i \in 1..Len(failmsgs) : failmsgs[i] \in Range(Candidates)
          /\ got[1].exc.args[1] = Join(FirstSeen(failmsgs))

\* C11 amended: a TemplateDoesNotExist leaving get_template carries the
\* requested name when no loader had the template, and the compiler's own
\* message (the name of the missing parent) when a loader had it and
\* compiling it failed; it never carries a loader's message.  The message
\* leaving select_template joins, for each candidate, one of these two.
C11_RequestedOrMissingParent ==
    /\ GetEndedNotFound =>
          got[1].exc.args[1] = IF found[1].ok THEN ParentName ELSE name
    /\ SelectEndedNotFound =>
          /\ Len(failmsgs) = Len(Candidates)
          /\ \A i \in 1..Len(failmsgs) :
                failmsgs[i] = IF CallFoundOne(i) THEN ParentName ELSE Candidates[i]
          /\ got[1].exc.args[1] = Join(FirstSeen(failmsgs))

\* C11 witness: select_template failed; one candidate was in no loader, the
\* other was found and extends a parent that does not exist
C11_Witness ==
    /\ SelectEndedNotFound /\ pc = "done" /\ op = "select_template"
    /\ ParentName \in Range(failmsgs)
    /\ \E i \in 1..Len(failmsgs) : failmsgs[i] = Candidates[i]
    /\ Len(invoked) >= 3

\* ---- C12
\* the entries of specs whose loader is usable, in order
UsableSpecs(specs) ==
    SubSeqAt(specs, {i \in 1..Len(specs) : is_usable(Loader(specs[i].ref, 0))})

\* chain holds, entry for entry, a loader of the class or function specs names
BuiltFrom(chain, specs) ==
    /\ Len(chain) = Len(specs)
    /\ \A i \in 1..Len(chain) : chain[i].cls = specs[i].ref /\ ~chain[i].bound
    /\ \A i, j \in 1..Len(chain) :
          (i # j /\ chain[i].cls \in Classes) => chain[i] # chain[j]

\* C12: the cached chain, and the list a thread is building, hold one loader
\* per usable entry of the settings, in the order of the settings, each class
\* entry with an instance of its own; entries whose loader is not usable
\* contribute nothing, and no find_template call over the default chain
\* calls a loader that is not usable.
C12_ChainIsUsableSpecsInOrder ==
    /\ template_source_loaders # None =>
          BuiltFrom(template_source_loaders[1], UsableSpecs(settings))
    /\ \A t \in Threads :
          tpc[t] = "build" =>
              BuiltFrom(tloaders[t], UsableSpecs(SubSeq(settings, 1, ti[t] - 1)))
    /\ loadersArg = None =>
          \A i \in 1..Len(invoked) :
              /\ is_usable(invoked[i].loader)
              /\ invoked[i].loader \in Range(CurrentChain)

\* C12 witness: the settings name an unusable loader first and a usable one
\* second; the chain holds the second alone and find_template called it
C12_Witness ==
    /\ op = "find_template" /\ loadersArg = None /\ pc = "found"
    /\ Len(settings) = 2 /\ settings[1].ref = "eggs" /\ settings[2].ref = "plain"
    /\ template_source_loaders # None /\ Len(template_source_loaders[1]) = 1
    /\ Len(invoked) = 1 /\ invoked[1].loader = template_source_loaders[1][1]

\* ---- C13
\* C13: find_template iterates the chain as it is, every loader at its place,
\* unless a marker is present whose loadname is the name looked up; only
\* then does the for loop run over something else than the chain.
C13_FilterOnlyForSameName ==
    InFind =>
        /\ loaders = CurrentChain
        /\ (skip_template = None \/ skip_template[1].loadname # name) =>
              /\ gen = "none"
              /\ InvokedPrefixOf(CurrentChain)
              /\ LoopDrained => Handed = CurrentChain
        /\ gen # "none" =>
              /\ skip_template # None
              /\ skip_template[1].loadname = name

\* C13 witness: the marker names the first loader of the chain but another
\* template name; that first loader was called all the same
C13_Witness ==
    /\ InFind /\ skip_template # None /\ skip_template[1].loadname # name
    /\ Len(CurrentChain) >= 2 /\ 1 \in MarkerPositions
    /\ ~IsNeverSkip(CurrentChain[1])
    /\ Len(Now) >= 1 /\ Now[1].loader = CurrentChain[1]

\* ---- C14
\* C14: when the loader the marker names is no member of the chain, the skip
\* filter yields the never-skip loaders of the chain, in chain order, and
\* nothing else; if the chain has none, find_template calls no loader and
\* raises TemplateDoesNotExist(name).  The code breaks this where the chain
\* holds a function-style loader: the filter raises AttributeError there.
C14_UnknownMarkerYieldsNeverSkipOnly ==
    (InFind /\ Skipping /\ MarkerPositions = {}) =>
        /\ InvokedPrefixOf(SubSeqAt(CurrentChain, NeverSkipPositions))
        /\ \A i \in 1..Len(Now) : IsNeverSkip(Now[i].loader)
        /\ NeverSkipPositions = {} =>
              /\ Now = <<>>
              /\ pc = "found" => found[1] = Raise(TemplateDoesNotExist(name))

\* C14, the failing case: the chain is one function-style loader, the marker
\* names a loader outside the chain; find_template called no loader and
\* ended with AttributeError, not TemplateDoesNotExist
C14_UnknownMarkerAttributeError ==
    /\ InFind /\ Skipping /\ MarkerPositions = {} /\ NeverSkipPositions = {}
    /\ Len(CurrentChain) = 1 /\ pc = "found"
    /\ Now = <<>>
    /\ ~found[1].ok /\ found[1].exc.type = "AttributeError"

\* ---- C15
\* find_template has returned content and origin
FindSucceeded == InFind /\ pc = "found" /\ found[1].ok

\* C15: what find_template returns is a compiled template with origin None,
\* or raw source with an origin; the origin names the loader that was called
\* last, the name looked up and the dirs given.
C15_CompiledOrSourceWithOrigin ==
    FindSucceeded =>
        LET content == found[1].value[1]
            origin == found[1].value[2]
        IN /\ HasRender(content) => origin = None
           /\ ~HasRender(content) =>
                 /\ origin # None
                 /\ origin[1].name # NoDisplay
                 /\ origin[1].loader = LastInvoked.loader
                 /\ origin[1].loadname = name
                 /\ origin[1].dirs = dirs

\* C15 witness: the second loader of the chain returned raw source (it could
\* not compile it) and find_template returned it with an origin
C15_Witness ==
    /\ FindSucceeded /\ op = "find_template"
    /\ ~HasRender(found[1].value[1]) /\ found[1].value[2] # None
    /\ Len(Now) = 2 /\ dirs # None

\* C15 witness, second case: a loader returned a compiled template
C15_WitnessCompiled ==
    /\ FindSucceeded /\ op = "find_template"
    /\ HasRender(found[1].value[1]) /\ found[1].value[2] = None
    /\ Len(Now) = 2

\* ---- C16
IsThisCompile(e) == e.call = calls

\* the compiler calls get_template made for the name being looked up
CompilesNow == SelectSeq(compiles, IsThisCompile)

\* C16: when get_template has ended, a value it returns is a compiled
\* template.  If find_template returned a compiled template, get_template
\* made no compiler call and returns that very template; if it returned raw
\* source, get_template made one compiler call, with that source, the origin
\* find_template returned and the requested name, and its outcome is the
\* compiler's; if find_template raised, no compiler call was made.
C16_CompilesExactlyRawSource ==
    pc = "got" =>
        /\ got[1].ok => found[1].ok /\ HasRender(got[1].value)
        /\ ~found[1].ok => CompilesNow = <<>> /\ got[1] = found[1]
        /\ found[1].ok =>
              LET content == found[1].value[1]
                  origin == found[1].value[2]
              IN IF HasRender(content)
                 THEN CompilesNow = <<>> /\ got[1] = Return(content)
                 ELSE /\ Len(CompilesNow) = 1
                      /\ CompilesNow[1].args =
                             [source |-> content, origin |-> origin, name |-> name]
                      /\ got[1] = get_template_from_string(content, origin, name)

\* C16 witness: a function-style loader returned raw source, get_template
\* compiled it and returned the template, which carries the origin
C16_Witness ==
    /\ op = "get_template" /\ pc = "done" /\ result[1].ok
    /\ Len(compiles) = 1
    /\ ~HasRender(found[1].value[1])
    /\ result[1].value.origin = found[1].value[2]
    /\ result[1].value.name = name
    /\ dirs # None

\* C16 witness, second case: a loader class returned a compiled template and
\* get_template returned it without compiling
C16_WitnessCompiled ==
    /\ op = "get_template" /\ pc = "done" /\ result[1].ok
    /\ compiles = <<>> /\ result[1].value = found[1].value[1]

\* ---- C17
\* select_template is running, or has ended, over a list that is not empty
InSelect == template_name_list # None /\ Candidates # <<>> /\ pc # "idle"

\* C17: select_template looks the candidates up one after the other in list
\* order, each only after all before it ended with TemplateDoesNotExist.
\* When it returns a template, that is the template of the candidate looked
\* up last, as the loader called last returned it; no later candidate was
\* looked up, and the failures before it left no trace in it.
C17_FirstCandidateThatResolves ==
    InSelect =>
        /\ ci = calls /\ ci \in 1..Len(Candidates)
        /\ name = Candidates[ci]
        /\ Len(failmsgs) \in {ci - 1, ci}
        /\ \A i \in 1..Len(invoked) :
              /\ invoked[i].call \in 1..ci
              /\ invoked[i].name = Candidates[invoked[i].call]
              /\ \A j \in 1..(i - 1) : invoked[j].call <= invoked[i].call
        /\ (pc \in {"selected", "render", "done"} /\ got[1].ok) =>
              /\ Len(failmsgs) = ci - 1
              /\ LastInvoked.out.ok
              /\ got[1].value = LastInvoked.out.value[1]
              /\ got[1].value.name = Candidates[ci]

\* C17 witness: of three candidates the first was in no loader, the second
\* resolved and was returned, the third was never looked up
C17_Witness ==
    /\ InSelect /\ op = "select_template" /\ pc = "done" /\ result[1].ok
    /\ Len(Candidates) = 3 /\ ci = 2 /\ calls = 2
    /\ Candidates[1] # Candidates[2] /\ Candidates[3] # Candidates[2]
    /\ failmsgs = <<Candidates[1]>>
    /\ result[1].value.name = Candidates[2]
    /\ \E i \in 1..Len(invoked) : invoked[i].call = 1

\* ---- C18
\* find_template returned and the origin of its result was reloaded at once
Reloaded == op = "find_template" /\ pc = "done" /\ reloaded # None

\* C18 as stated: reload returns the content the resolution returned.
C18_ReloadReturnsSameContent ==
    Reloaded => reloaded[1] = Return(result[1].value[1])

\* C18 amended: reload returns the raw source the loader read.  For an
\* origin find_template returned (it comes with raw source) that is the
\* content find_template returned.  For the origin load_template compiled a
\* template with, it is the source of the returned template, not the
\* template.
C18_ReloadReturnsSource ==
    Reloaded =>
        LET content == result[1].value[1]
            origin == result[1].value[2]
        IN /\ reloaded[1].ok
           /\ ~HasRender(reloaded[1].value)
           /\ origin # None => reloaded[1].value = content
           /\ origin = None => HasRender(content) /\ reloaded[1].value = content.source

\* C18 witness: find_template, called with a marker that applied, returned a
\* compiled template; reloading the template's origin gave its source
C18_Witness ==
    /\ Reloaded /\ Skipping
    /\ result[1].value[2] = None
    /\ reloaded[1] = Return(result[1].value[1].source)

\* C18 witness, second case: find_template returned raw source and an
\* origin, and reload returned the same source
C18_WitnessSource ==
    /\ Reloaded /\ ~Skipping
    /\ result[1].value[2] # None
    /\ reloaded[1] = Return(result[1].value[1])

\* ---- C19
\* the loader object the marker names (lines 171-172)
MarkerLoader == Unwrap(skip_template[1].loader)

\* positions of the chain holding another instance of the marker loader's
\* class: equal in configuration, not the same object
SameConfigPositions ==
    {i \in 1..Len(CurrentChain) :
        CurrentChain[i] # MarkerLoader /\ CurrentChain[i].cls = MarkerLoader.cls}

\* the never-skip loaders and the loaders standing after the marker's loader
\* object, each at its place in chain order
AfterSameObjectOrNeverSkip ==
    SubSeqAt(CurrentChain,
             {j \in 1..Len(CurrentChain) :
                 \/ IsNeverSkip(CurrentChain[j])
                 \/ \E i \in 1..(j - 1) : CurrentChain[i] = MarkerLoader})

\* C19: in a chain holding other instances of the marker loader's class, the
\* skip point is passed at the marker's loader object alone: no loader is
\* called but the never-skip ones and those standing after that object, in
\* order, all of them once find_template has come to line 163; the
\* generator's has_been_skiped is true only when that object went by.
C19_SkipPointByIdentity ==
    (InFind /\ Skipping /\ SameConfigPositions # {}) =>
        /\ InvokedPrefixOf(AfterSameObjectOrNeverSkip)
        /\ LoopDrained => Handed = AfterSameObjectOrNeverSkip
        /\ has_been_skiped => \E i \in 1..idx : CurrentChain[i] = MarkerLoader
        /\ (MarkerPositions = {} /\ NeverSkipPositions = {}) => Now = <<>>

\* C19 witness: the marker's loader stands last in a chain of three plain
\* loaders; the two instances before it did not start the yielding, no
\* loader was called
C19_Witness ==
    /\ InFind /\ Skipping /\ pc = "found"
    /\ Len(CurrentChain) = 3 /\ NeverSkipPositions = {}
    /\ MarkerPositions = {3} /\ SameConfigPositions = {1, 2}
    /\ Now = <<>> /\ IsNotFound(found[1])

\* ---- C20
IsConfigError(r) == ~r.ok /\ r.exc.type = "ImproperlyConfigured"

\* the settings hold an entry find_template_loader rejects
Misconfigured == IsConfigError(build_loaders(settings, 1, <<>>, BuiltBase))

\* C20: once a call of get_template_source_loaders has raised
\* ImproperlyConfigured the global is still None and was never assigned, and
\* no call is served from a cache: every call builds from the settings
\* again and, the settings being what they are, raises in its turn.  The
\* same holds when the call is the one find_template makes: the lookup ends
\* with the configuration error, the global is None and no loader was called.
C20_FailedBuildLeavesCacheUnset ==
    /\ build_failures > 0 =>
          /\ template_source_loaders = None
          /\ writes = 0
          /\ Misconfigured
          /\ \A t \in Threads : tpc[t] # "return" /\ ~late[t]
    /\ (found # None /\ IsConfigError(found[1])) =>
          /\ template_source_loaders = None
          /\ Misconfigured
          /\ invoked = <<>>

\* C20 witness: more calls have failed than there are threads, so a thread
\* that had failed called again and built again, past the first entry of the
\* settings, before it failed anew
C20_Witness ==
    /\ build_failures = MaxFailures
    /\ Len(settings) = 2 /\ settings[1].ref = "plain"
    /\ \E t \in Threads : tpc[t] = "build" /\ ti[t] = 2 /\ Len(tloaders[t]) = 1
    /\ template_source_loaders = None

====
